---- MODULE Spec2Model ----
(***************************************************************************)
(* Model of semantic_model_generator/data_processing/cte_utils.py.         *)
(*                                                                         *)
(* Python strings are TLA+ strings.  A piece of SQL text is modelled by    *)
(* its sequence of tokens (white space and line breaks carry no meaning    *)
(* for the parser and are left out); an expression such as SUM(amount)     *)
(* is the token sequence <<"SUM", "(", "amount", ")">>.  sqlglot's parser  *)
(* and generator are modelled by what they do to such token sequences.    *)
(* A protobuf message is a record, a repeated field a sequence, and the    *)
(* Python value None of an optional AST child the empty sequence.          *)
(***************************************************************************)
EXTENDS Integers, Sequences, FiniteSets, TLC

(***************************************************************************)
(* Bounds of the checked instances.                                        *)
(***************************************************************************)
MaxTables == 2
MaxEntries == 3
MaxColumns == 1
MaxCteColumns == 2

(***************************************************************************)
(* String helpers: str.startswith, str.lower (on the words the inputs use) *)
(* and str.join on token sequences.                                        *)
(***************************************************************************)
startswith(s, p) == Len(s) >= Len(p) /\ SubSeq(s, 1, Len(p)) = p

lower(s) ==
    CASE s = "REGION" -> "region"
      [] s = "DAY" -> "day"
      [] s = "AS" -> "as"
      [] OTHER -> s

\* "sep".join(parts) for a sequence of token sequences
RECURSIVE join(_, _)
join(sep, parts) ==
    IF Len(parts) = 0 THEN <<>>
    ELSE IF Len(parts) = 1 THEN parts[1]
    ELSE parts[1] \o sep \o join(sep, Tail(parts))

(***************************************************************************)
(* sqlglot: parsing.  An AST of a statement is                             *)
(*   [with |-> <<>> or <<[expressions |-> sequence of CTEs]>>,             *)
(*    expressions |-> projections, from |-> tokens after FROM]             *)
(* a CTE is [alias |-> string, this |-> AST of its SELECT], a projection  *)
(* is [this |-> expression tokens, alias |-> string ("" when none)].       *)
(***************************************************************************)
\* position of the parenthesis closing the one whose inside starts at position
\* j, depth being the number of parentheses open at j
RECURSIVE ClosingFrom(_, _, _)
ClosingFrom(toks, j, depth) ==
    IF toks[j] = "(" THEN ClosingFrom(toks, j + 1, depth + 1)
    ELSE IF toks[j] = ")"
    THEN IF depth = 1 THEN j ELSE ClosingFrom(toks, j + 1, depth - 1)
    ELSE ClosingFrom(toks, j + 1, depth)

\* position of the parenthesis closing the one opened at position open
MatchingClose(toks, open) == ClosingFrom(toks, open + 1, 1)

\* position, from j on, of the first token t outside any parenthesis;
\* Len(toks) + 1 if there is none
RECURSIVE FirstTopLevel(_, _, _, _)
FirstTopLevel(toks, t, j, depth) ==
    IF j > Len(toks) THEN j
    ELSE IF toks[j] = "(" THEN FirstTopLevel(toks, t, j + 1, depth + 1)
    ELSE IF toks[j] = ")" THEN FirstTopLevel(toks, t, j + 1, depth - 1)
    ELSE IF toks[j] = t /\ depth = 0 THEN j
    ELSE FirstTopLevel(toks, t, j + 1, depth)

\* split a token sequence on its top-level commas
RECURSIVE SplitCsv(_)
SplitCsv(toks) ==
    IF Len(toks) = 0 THEN <<>>
    ELSE LET c == FirstTopLevel(toks, ",", 1, 0)
         IN  IF c > Len(toks) THEN <<toks>>
             ELSE <<SubSeq(toks, 1, c - 1)>> \o SplitCsv(SubSeq(toks, c + 1, Len(toks)))

\* one projection: expr [AS alias]
ParseProjection(toks) ==
    IF Len(toks) >= 3 /\ lower(toks[Len(toks) - 1]) = "as"
    THEN [this |-> SubSeq(toks, 1, Len(toks) - 2), alias |-> toks[Len(toks)]]
    ELSE [this |-> toks, alias |-> ""]

\* SELECT <projections> [FROM <source>]; a SELECT directly followed by FROM has
\* no projection
ParseSelect(toks) ==
    LET f == FirstTopLevel(toks, "FROM", 1, 0)
        items == SplitCsv(SubSeq(toks, 2, f - 1))
    IN  [with |-> <<>>,
         expressions |-> [k \in 1..Len(items) |-> ParseProjection(items[k])],
         from |-> SubSeq(toks, f + 1, Len(toks))]

\* the CTE list starting at position pos (the position of the first alias);
\* yields the CTEs and the position of the first token after the list
RECURSIVE ParseCtes(_, _)
ParseCtes(toks, pos) ==
    LET close == MatchingClose(toks, pos + 2)
        cte == [alias |-> toks[pos], this |-> ParseSelect(SubSeq(toks, pos + 3, close - 1))]
    IN  IF close < Len(toks) /\ toks[close + 1] = ","
        THEN LET more == ParseCtes(toks, close + 2)
             IN  [ctes |-> <<cte>> \o more.ctes, next |-> more.next]
        ELSE [ctes |-> <<cte>>, next |-> close + 1]

\* sqlglot.parse_one(text, read=Snowflake, into=sqlglot.expressions.With)
ParseWith(toks) == [expressions |-> ParseCtes(toks, 2).ctes]

\* sqlglot.parse_one(text, read=Snowflake)
ParseOne(toks) ==
    IF Len(toks) > 0 /\ toks[1] = "WITH"
    THEN LET p == ParseCtes(toks, 2)
         IN  [ParseSelect(SubSeq(toks, p.next, Len(toks)))
                EXCEPT !.with = <<[expressions |-> p.ctes]>>]
    ELSE ParseSelect(toks)

(***************************************************************************)
(* sqlglot: generation, ast.sql(dialect=Snowflake, pretty=True).  The      *)
(* generator writes keywords in upper case (an "as" of the input comes     *)
(* out as "AS").                                                           *)
(***************************************************************************)
SqlProjection(p) == IF p.alias = "" THEN p.this ELSE p.this \o <<"AS", p.alias>>

SqlSelect(ast) ==
    <<"SELECT">> \o join(<<",">>, [k \in 1..Len(ast.expressions) |-> SqlProjection(ast.expressions[k])])
        \o (IF Len(ast.from) = 0 THEN <<>> ELSE <<"FROM">> \o ast.from)

SqlCte(cte) == <<cte.alias, "AS", "(">> \o SqlSelect(cte.this) \o <<")">>

Sql(ast) ==
    (IF ast.with = <<>> THEN <<>>
     ELSE <<"WITH">> \o join(<<",">>, [k \in 1..Len(ast.with[1].expressions) |-> SqlCte(ast.with[1].expressions[k])]))
        \o SqlSelect(ast)

(***************************************************************************)
(* Outcome of a call: a returned value, or a raised exception.             *)
(***************************************************************************)
NoExc == [type |-> "", msg |-> ""]

Return(v) == [exc |-> NoExc, value |-> v]

Raise(type, msg) == [exc |-> [type |-> type, msg |-> msg], value |-> <<>>]

Raised(o) == o.exc.type # ""

(***************************************************************************)
(* semantic_model_pb2: the messages read and written by cte_utils.py.      *)
(***************************************************************************)
\* The kinds of a Column.  measure is the 2 that is_aggregation_expr compares
\* col.kind with; the other numbers only have to differ from it.
ColumnKind ==
    [column_kind_unknown |-> 0, dimension |-> 1, measure |-> 2, time_dimension |-> 3]

\* semantic_model_pb2.Column(): every field at its protobuf default
NewColumn ==
    [name |-> "", synonyms |-> <<>>, description |-> "", expr |-> <<>>,
     data_type |-> "", kind |-> 0, unique |-> FALSE,
     default_aggregation |-> 0, sample_values |-> <<>>]

(***************************************************************************)
(* cte_utils.py                                                            *)
(***************************************************************************)
_LOGICAL_TABLE_PREFIX == "__"

\* is_logical_table without the test on the length
is_logical_table_prefix_only(table_name) ==
    startswith(table_name, _LOGICAL_TABLE_PREFIX)

is_logical_table(table_name) ==
    /\ startswith(table_name, _LOGICAL_TABLE_PREFIX)
    /\ Len(table_name) > Len(_LOGICAL_TABLE_PREFIX)

logical_table_name(table) == _LOGICAL_TABLE_PREFIX \o table.name

fully_qualified_table_name(table) ==
    LET fqn0 == table.table
        fqn1 == IF Len(table.schema) > 0 THEN table.schema \o "." \o fqn0 ELSE fqn0
    IN  IF Len(table.database) > 0 THEN table.database \o "." \o fqn1 ELSE fqn1

\* names of the functions sqlglot parses into an AggFunc node
AggFuncNames == {"SUM", "COUNT", "AVG", "MIN", "MAX"}

\* list(parsed.find_all(sqlglot.expressions.AggFunc)): one node per call of an
\* aggregate function, wherever it is in the expression
FindAllAggFunc(expr) ==
    {i \in 1..(Len(expr) - 1) : expr[i] \in AggFuncNames /\ expr[i + 1] = "("}

\* list(parsed.find_all(sqlglot.expressions.Window)): one node per OVER clause
FindAllWindow(expr) == {i \in 1..Len(expr) : expr[i] = "OVER"}

\* is_aggregation_expr without the test on window functions
is_aggregation_expr_no_window(col) ==
    IF Cardinality(FindAllAggFunc(col.expr)) > 0
    THEN IF col.kind # 2
         THEN Raise("ValueError", "Only allow aggregation expressions for measures.")
         ELSE Return(TRUE)
    ELSE Return(FALSE)

is_aggregation_expr(col) ==
    LET agg_func == FindAllAggFunc(col.expr)
        window == FindAllWindow(col.expr)
    IN  IF Cardinality(agg_func) > 0 /\ Cardinality(window) = 0
        THEN IF col.kind # 2
             THEN Raise("ValueError", "Only allow aggregation expressions for measures.")
             ELSE Return(TRUE)
        ELSE Return(FALSE)

\* remove_ltable_cte popping the last CTE instead of the first
remove_ltable_cte_last(sql_w_ltable_cte) ==
    LET ast == ParseOne(sql_w_ltable_cte)
        with_ == ast.with
    IN  IF with_ = <<>>
        THEN Raise("ValueError", "Must contain the logical CTE.")
        ELSE IF ~is_logical_table(with_[1].expressions[1].alias)
        THEN Raise("ValueError", "Must contain the logical CTE.")
        ELSE IF Len(with_[1].expressions) = 1
        THEN Return(Sql([ast EXCEPT !.with = <<>>]))
        ELSE Return(Sql([ast EXCEPT !.with[1].expressions =
                            SubSeq(with_[1].expressions, 1, Len(with_[1].expressions) - 1)]))

remove_ltable_cte(sql_w_ltable_cte) ==
    LET ast == ParseOne(sql_w_ltable_cte)
        with_ == ast.with
    IN  IF with_ = <<>>
        THEN Raise("ValueError", "Must contain the logical CTE.")
        ELSE IF ~is_logical_table(with_[1].expressions[1].alias)
        THEN Raise("ValueError", "Must contain the logical CTE.")
        ELSE IF Len(with_[1].expressions) = 1
        THEN Return(Sql([ast EXCEPT !.with = <<>>]))
        ELSE Return(Sql([ast EXCEPT !.with[1].expressions = Tail(with_[1].expressions)]))

_get_col_expr(column) ==
    IF <<lower(column.name)>> # [k \in 1..Len(column.expr) |-> lower(column.expr[k])]
    THEN column.expr \o <<"as", column.name>>
    ELSE column.expr

\* _generate_cte_for without the filter on aggregations
_generate_cte_for_all_columns(table) ==
    LET raising == {i \in 1..Len(table.columns) : Raised(is_aggregation_expr(table.columns[i]))}
    IN  IF raising # {}
        THEN is_aggregation_expr(table.columns[CHOOSE i \in raising : \A j \in raising : i <= j])
        ELSE Return(<<"WITH", logical_table_name(table), "AS", "(", "SELECT">>
                      \o join(<<",">>, [k \in 1..Len(table.columns) |-> _get_col_expr(table.columns[k])])
                      \o <<"FROM", fully_qualified_table_name(table.base_table), ")">>)

_generate_cte_for(table) ==
    LET raising == {i \in 1..Len(table.columns) : Raised(is_aggregation_expr(table.columns[i]))}
        NonAgg(c) == ~is_aggregation_expr(c).value
        table_non_agg_column_names ==
            {table.columns[i].name : i \in {j \in 1..Len(table.columns) : NonAgg(table.columns[j])}}
        Kept(c) == c.name \in table_non_agg_column_names
        kept == SelectSeq(table.columns, Kept)
        columns == [k \in 1..Len(kept) |-> _get_col_expr(kept[k])]
    IN  IF raising # {}
        THEN is_aggregation_expr(table.columns[CHOOSE i \in raising : \A j \in raising : i <= j])
        ELSE Return(<<"WITH", logical_table_name(table), "AS", "(", "SELECT">>
                      \o join(<<",">>, columns)
                      \o <<"FROM", fully_qualified_table_name(table.base_table), ")">>)

(***************************************************************************)
(* context_to_column_format.  The caller's message and the message built   *)
(* by the function are two objects of a heap, "ctx" and "ret"; the         *)
(* function works on the object its local name ret is bound to.            *)
(***************************************************************************)
\* the object bound to ret when ret is made an alias of the argument
ret_object_aliased == "ctx"

\* ret = semantic_model_pb2.SemanticModel(): a fresh object
ret_object == "ret"

\* ret.CopyFrom(ctx)
CopyFrom(heap, dst, src) == [heap EXCEPT ![dst] = heap[src]]

DimensionToColumn(d) ==
    [NewColumn EXCEPT !.kind = ColumnKind.dimension,
                      !.name = d.name,
                      !.synonyms = NewColumn.synonyms \o d.synonyms,
                      !.description = d.description,
                      !.expr = d.expr,
                      !.data_type = d.data_type,
                      !.unique = d.unique,
                      !.sample_values = NewColumn.sample_values \o d.sample_values]

TimeDimensionToColumn(td) ==
    [NewColumn EXCEPT !.kind = ColumnKind.time_dimension,
                      !.name = td.name,
                      !.synonyms = NewColumn.synonyms \o td.synonyms,
                      !.description = td.description,
                      !.expr = td.expr,
                      !.data_type = td.data_type,
                      !.unique = td.unique,
                      !.sample_values = NewColumn.sample_values \o td.sample_values]

MeasureToColumn(m) ==
    [NewColumn EXCEPT !.kind = ColumnKind.measure,
                      !.name = m.name,
                      !.synonyms = NewColumn.synonyms \o m.synonyms,
                      !.description = m.description,
                      !.expr = m.expr,
                      !.data_type = m.data_type,
                      !.default_aggregation = m.default_aggregation,
                      !.sample_values = NewColumn.sample_values \o m.sample_values]

\* ConvertTable with the measures loop before the dimensions loop
ConvertTable_measures_first(table) ==
    [table EXCEPT !.columns =
                      table.columns
                          \o [k \in 1..Len(table.measures) |-> MeasureToColumn(table.measures[k])]
                          \o [k \in 1..Len(table.dimensions) |-> DimensionToColumn(table.dimensions[k])]
                          \o [k \in 1..Len(table.time_dimensions) |->
                                 TimeDimensionToColumn(table.time_dimensions[k])],
                  !.dimensions = <<>>, !.time_dimensions = <<>>, !.measures = <<>>]

\* the three loops of the body, each followed by its del
ConvertTable(table) ==
    LET t1 == [table EXCEPT !.columns =
                   @ \o [k \in 1..Len(table.dimensions) |-> DimensionToColumn(table.dimensions[k])]]
        t2 == [t1 EXCEPT !.dimensions = <<>>]
        t3 == [t2 EXCEPT !.columns =
                   @ \o [k \in 1..Len(t2.time_dimensions) |->
                           TimeDimensionToColumn(t2.time_dimensions[k])]]
        t4 == [t3 EXCEPT !.time_dimensions = <<>>]
        t5 == [t4 EXCEPT !.columns =
                   @ \o [k \in 1..Len(t4.measures) |-> MeasureToColumn(t4.measures[k])]]
    IN  [t5 EXCEPT !.measures = <<>>]

\* the message of the ValueError: a plain string literal, not an f-string
BothFormatsMessage(table) ==
    "table {table.name} defines both columns and dimensions/time_dimensions/measures."

\* for table in ret.tables, from the i-th table on; yields the heap and the
\* exception raised, if any
RECURSIVE ConvertTables(_, _, _)
ConvertTables(heap, ret, i) ==
    IF i > Len(heap[ret].tables) THEN [heap |-> heap, exc |-> NoExc]
    ELSE LET table == heap[ret].tables[i]
             column_format == Len(table.columns) > 0
             dimension_measure_format ==
                 \/ Len(table.dimensions) > 0
                 \/ Len(table.time_dimensions) > 0
                 \/ Len(table.measures) > 0
         IN  IF column_format /\ dimension_measure_format
             THEN [heap |-> heap, exc |-> Raise("ValueError", BothFormatsMessage(table)).exc]
             ELSE IF column_format
             THEN ConvertTables(heap, ret, i + 1)
             ELSE ConvertTables([heap EXCEPT ![ret].tables[i] = ConvertTable(table)], ret, i + 1)

\* the call context_to_column_format(ctx) on the caller's message: yields the
\* caller's message after the call and the outcome of the call
context_to_column_format(ctx) ==
    LET ret == ret_object
        heap0 == [ctx |-> ctx, ret |-> [tables |-> <<>>]]
        heap1 == CopyFrom(heap0, ret, "ctx")
        done == ConvertTables(heap1, ret, 1)
    IN  [ctx |-> done.heap.ctx,
         out |-> IF done.exc.type # "" THEN [exc |-> done.exc, value |-> <<>>]
                 ELSE Return(done.heap[ret])]

(***************************************************************************)
(* expand_all_logical_tables_as_ctes                                       *)
(***************************************************************************)
\* generate_full_logical_table_ctes(ctx): the outcome of the first call of
\* _generate_cte_for that raises, else the list of the CTE texts
generate_full_logical_table_ctes(ctx) ==
    LET outs == [k \in 1..Len(ctx.tables) |-> _generate_cte_for(ctx.tables[k])]
        raising == {i \in 1..Len(outs) : Raised(outs[i])}
    IN  IF raising # {}
        THEN outs[CHOOSE i \in raising : \A j \in raising : i <= j]
        ELSE Return([i \in 1..Len(outs) |-> outs[i].value])

\* lines 144-164 with the new CTEs put after the query's own
MergeCtes_appended(sql_query, ctes) ==
    LET new_withs == [k \in 1..Len(ctes) |-> ParseWith(ctes[k])]
        ast == ParseOne(sql_query)
        FirstCte(w) == w.expressions[1]
        new_ctes == [k \in 1..Len(new_withs) |-> FirstCte(new_withs[k])]
    IN  IF ast.with = <<>>
        THEN IF Len(new_withs) = 0
             THEN Raise("IndexError", "list index out of range")
             ELSE Return(Sql([ast EXCEPT !.with = <<[expressions |-> new_ctes]>>]))
        ELSE Return(Sql([ast EXCEPT !.with[1].expressions = @ \o new_ctes]))

\* lines 144-164: parse the CTE texts and the query, merge, render
MergeCtes(sql_query, ctes) ==
    LET new_withs == [k \in 1..Len(ctes) |-> ParseWith(ctes[k])]
        ast == ParseOne(sql_query)
        with_ == ast.with
        FirstCte(w) == w.expressions[1]
    IN  IF with_ = <<>>
        THEN IF Len(new_withs) = 0
             THEN Raise("IndexError", "list index out of range")
             ELSE LET merged_with == new_withs[1]
                      remaining_ctes == [k \in 1..(Len(new_withs) - 1) |-> FirstCte(new_withs[k + 1])]
                      merged == [merged_with EXCEPT !.expressions = @ \o remaining_ctes]
                  IN  Return(Sql([ast EXCEPT !.with = <<merged>>]))
        ELSE LET new_ctes == [k \in 1..Len(new_withs) |-> FirstCte(new_withs[k])]
             IN  Return(Sql([ast EXCEPT !.with[1].expressions = new_ctes \o @]))

\* yields the caller's model after the call and the outcome of the call
expand_all_logical_tables_as_ctes(sql_query, model) ==
    LET conv == context_to_column_format(model)
        ctes == generate_full_logical_table_ctes(conv.out.value)
    IN  [ctx |-> conv.ctx,
         out |-> IF Raised(conv.out) THEN conv.out
                 ELSE IF Raised(ctes) THEN ctes
                 ELSE MergeCtes(sql_query, ctes.value)]

(***************************************************************************)
(* Inputs.                                                                 *)
(***************************************************************************)
\* the sequences of at most n pairwise different elements of S
DistinctSeqs(S, n) ==
    UNION {{q \in [1..k -> S] : \A i, j \in 1..k : i # j => q[i] # q[j]} : k \in 0..n}

ExprColumn == <<"region_code">>
ExprUpperDay == <<"DAY">>
ExprSum == <<"SUM", "(", "amount", ")">>
ExprCountStar == <<"COUNT", "(", "*", ")">>
ExprWindow == <<"SUM", "(", "amount", ")", "OVER", "(", "PARTITION", "BY", "region_code", ")">>
ExprRatio == <<"amount", "/", "SUM", "(", "amount", ")", "OVER", "(", ")">>
ExprUpper == <<"UPPER", "(", "region_code", ")">>

Dims ==
    {[name |-> "region", synonyms |-> <<"area">>, description |-> "sales region",
      expr |-> ExprColumn, data_type |-> "TEXT", unique |-> TRUE, sample_values |-> <<"EU", "US">>],
     [name |-> "rank", synonyms |-> <<>>, description |-> "",
      expr |-> ExprWindow, data_type |-> "NUMBER", unique |-> FALSE, sample_values |-> <<>>]}

TimeDims ==
    {[name |-> "day", synonyms |-> <<"date">>, description |-> "",
      expr |-> ExprUpperDay, data_type |-> "DATE", unique |-> TRUE, sample_values |-> <<"2024-01-01">>]}

Measures ==
    {[name |-> "total", synonyms |-> <<"revenue">>, description |-> "total amount",
      expr |-> ExprSum, data_type |-> "NUMBER", default_aggregation |-> 1, sample_values |-> <<"10">>]}

Columns ==
    {[NewColumn EXCEPT !.name = "region", !.expr = ExprColumn, !.kind = ColumnKind.dimension,
                       !.data_type = "TEXT", !.unique = TRUE],
     [NewColumn EXCEPT !.name = "bad", !.expr = ExprCountStar, !.kind = ColumnKind.dimension,
                       !.data_type = "NUMBER"]}

\* the i-th table of a model: its name (not empty, unique within the model)
\* and its base table
TableNames == <<"fact", "orders", "users", "items">>

BaseTables ==
    <<[database |-> "db", schema |-> "sch", table |-> "fact_tbl"],
      [database |-> "", schema |-> "sch", table |-> "orders_tbl"],
      [database |-> "", schema |-> "", table |-> "users_tbl"],
      [database |-> "db", schema |-> "", table |-> "items_tbl"]>>

\* the column definitions of a table: split shape, column shape, neither, or
\* (invalid) one column beside one split-shape entry
SplitShapes ==
    {sh \in [dimensions : DistinctSeqs(Dims, MaxEntries),
             time_dimensions : DistinctSeqs(TimeDims, MaxEntries),
             measures : DistinctSeqs(Measures, MaxEntries)] :
        Len(sh.dimensions) + Len(sh.time_dimensions) + Len(sh.measures) <= MaxEntries}

TableShapes ==
    {[columns |-> <<>>, dimensions |-> sh.dimensions,
      time_dimensions |-> sh.time_dimensions, measures |-> sh.measures] : sh \in SplitShapes}
    \cup
    {[columns |-> cs, dimensions |-> <<>>, time_dimensions |-> <<>>, measures |-> <<>>] :
        cs \in DistinctSeqs(Columns, MaxColumns) \ {<<>>}}
    \cup
    {[columns |-> <<c>>, dimensions |-> sh.dimensions,
      time_dimensions |-> sh.time_dimensions, measures |-> sh.measures] :
        c \in {k \in Columns : k.name = "region"},
        sh \in {h \in SplitShapes : Len(h.dimensions) + Len(h.time_dimensions) + Len(h.measures) = 1}}

MakeTable(i, sh) ==
    [name |-> TableNames[i], description |-> "", base_table |-> BaseTables[i],
     columns |-> sh.columns, dimensions |-> sh.dimensions,
     time_dimensions |-> sh.time_dimensions, measures |-> sh.measures]

\* the model whose i-th table has the i-th of the shapes shs
MakeModel(shs) == [tables |-> [i \in 1..Len(shs) |-> MakeTable(i, shs[i])]]

\* inputs of expand_all_logical_tables_as_ctes: tables of at most two entries
ExpandShapes ==
    {sh \in TableShapes :
        Len(sh.columns) + Len(sh.dimensions) + Len(sh.time_dimensions)
            + Len(sh.measures) <= 2}

Queries ==
    {<<"SELECT", "*", "FROM", "__fact">>,
     <<"WITH", "other", "AS", "(", "SELECT", "1", ")", "SELECT", "*", "FROM", "other">>,
     <<"WITH", "_o", "AS", "(", "SELECT", "1", ")", "SELECT", "*", "FROM", "_o">>,
     <<"WITH", "__", "AS", "(", "SELECT", "1", ")", ",",
       "__x", "AS", "(", "SELECT", "a", "as", "b", "FROM", "t", ")",
       "SELECT", "b", "FROM", "__x">>}

\* inputs of _generate_cte_for: tables in column shape, column names unique
\* within the table
CteColumnDefs ==
    {<<"region", ExprColumn>>, <<"day", ExprUpperDay>>, <<"total", ExprSum>>,
     <<"rank", ExprWindow>>, <<"cnt", ExprCountStar>>, <<"share", ExprRatio>>}

CteColumns ==
    {[NewColumn EXCEPT !.name = d[1], !.expr = d[2], !.kind = k] :
        d \in CteColumnDefs, k \in {ColumnKind.dimension, ColumnKind.measure}}

CteTables ==
    {MakeTable(i, [columns |-> cs, dimensions |-> <<>>, time_dimensions |-> <<>>, measures |-> <<>>]) :
        i \in 1..3,
        cs \in {q \in DistinctSeqs(CteColumns, MaxCteColumns) :
                  \A a, b \in 1..Len(q) : a # b => q[a].name # q[b].name}}

\* inputs of is_aggregation_expr
ClassifyColumns ==
    {[NewColumn EXCEPT !.name = n, !.expr = e, !.kind = k] :
        n \in {"region", "total", "day"},
        e \in {ExprColumn, ExprUpperDay, ExprSum, ExprWindow, ExprCountStar, ExprRatio, ExprUpper},
        k \in {ColumnKind[f] : f \in DOMAIN ColumnKind}}

NoModel == [tables |-> <<>>]

NoTable ==
    MakeTable(1, [columns |-> <<>>, dimensions |-> <<>>, time_dimensions |-> <<>>, measures |-> <<>>])

(***************************************************************************)
(* State: the caller's inputs, the position of the caller, and the         *)
(* outcome of its last call.                                               *)
(***************************************************************************)
VARIABLES
    model,      \* the caller's SemanticModel
    sql_query,  \* the caller's query text
    table,      \* the Table given to _generate_cte_for
    col,        \* the Column given to is_aggregation_expr
    pc,         \* "start", or the last call made
    chain,      \* "expand" or "query": the text the strip calls started from
    strips,     \* number of remove_ltable_cte calls made
    arg,        \* the text given to the last remove_ltable_cte call
    ret,        \* the value returned by the last call (<<>> if it raised)
    exc         \* the exception raised by the last call (NoExc if it returned)

vars == <<model, sql_query, table, col, pc, chain, strips, arg, ret, exc>>

Init ==
    /\ \E n \in 0..MaxTables : \E shs \in [1..n -> ExpandShapes] : model = MakeModel(shs)
    /\ sql_query \in Queries
    /\ table = NoTable
    /\ col = NewColumn
    /\ pc = "start"
    /\ chain = ""
    /\ strips = 0
    /\ arg = <<>>
    /\ ret = <<>>
    /\ exc = NoExc

Canonicalize ==
    /\ pc = "start"
    /\ LET r == context_to_column_format(model)
       IN  /\ model' = r.ctx
           /\ ret' = r.out.value
           /\ exc' = r.out.exc
    /\ pc' = "canon"
    /\ UNCHANGED <<sql_query, table, col, chain, strips, arg>>

Expand ==
    /\ pc = "start"
    /\ LET r == expand_all_logical_tables_as_ctes(sql_query, model)
       IN  /\ model' = r.ctx
           /\ ret' = r.out.value
           /\ exc' = r.out.exc
    /\ pc' = "expand"
    /\ chain' = "expand"
    /\ UNCHANGED <<sql_query, table, col, strips, arg>>

\* remove_ltable_cte on the caller's query, or on the text the last expand or
\* strip call returned
Strip ==
    /\ pc \in {"start", "expand", "strip"}
    /\ exc = NoExc
    /\ LET text == IF pc = "start" THEN sql_query ELSE ret
           r == remove_ltable_cte(text)
       IN  /\ arg' = text
           /\ ret' = r.value
           /\ exc' = r.exc
    /\ pc' = "strip"
    /\ chain' = IF pc = "start" THEN "query" ELSE chain
    /\ strips' = strips + 1
    /\ UNCHANGED <<model, sql_query, table, col>>

Next == Canonicalize \/ Expand \/ Strip

Spec == Init /\ [][Next]_vars

\* context_to_column_format on its own
InitCanon ==
    /\ \E n \in 0..MaxTables : \E shs \in [1..n -> TableShapes] : model = MakeModel(shs)
    /\ sql_query = <<>>
    /\ table = NoTable
    /\ col = NewColumn
    /\ pc = "start"
    /\ chain = ""
    /\ strips = 0
    /\ arg = <<>>
    /\ ret = <<>>
    /\ exc = NoExc

NextCanon == Canonicalize

SpecCanon == InitCanon /\ [][NextCanon]_vars

\* _generate_cte_for on its own
InitCte ==
    /\ model = NoModel
    /\ sql_query = <<>>
    /\ table \in CteTables
    /\ col = NewColumn
    /\ pc = "start"
    /\ chain = ""
    /\ strips = 0
    /\ arg = <<>>
    /\ ret = <<>>
    /\ exc = NoExc

GenerateCte ==
    /\ pc = "start"
    /\ LET r == _generate_cte_for(table)
       IN  /\ ret' = r.value
           /\ exc' = r.exc
    /\ pc' = "cte"
    /\ UNCHANGED <<model, sql_query, table, col, chain, strips, arg>>

NextCte == GenerateCte

SpecCte == InitCte /\ [][NextCte]_vars

\* is_aggregation_expr on its own
InitClassify ==
    /\ model = NoModel
    /\ sql_query = <<>>
    /\ table = NoTable
    /\ col \in ClassifyColumns
    /\ pc = "start"
    /\ chain = ""
    /\ strips = 0
    /\ arg = <<>>
    /\ ret = <<>>
    /\ exc = NoExc

Classify ==
    /\ pc = "start"
    /\ LET r == is_aggregation_expr(col)
       IN  /\ ret' = r.value
           /\ exc' = r.exc
    /\ pc' = "classify"
    /\ UNCHANGED <<model, sql_query, table, col, chain, strips, arg>>

NextClassify == Classify

SpecClassify == InitClassify /\ [][NextClassify]_vars

(***************************************************************************)
(* Vocabulary of the properties.                                           *)
(***************************************************************************)
\* sub occurs in the string s
contains(s, sub) ==
    \E i \in 1..(Len(s) - Len(sub) + 1) : SubSeq(s, i, i + Len(sub) - 1) = sub

\* the CTE list of a text (empty when it has no WITH clause)
CtesOf(text) ==
    LET ast == ParseOne(text)
    IN  IF ast.with = <<>> THEN <<>> ELSE ast.with[1].expressions

\* the statement of a text without its WITH clause
BodyOf(text) == [ParseOne(text) EXCEPT !.with = <<>>]

HasWith(text) == ParseOne(text).with # <<>>

\* a table defines both shapes
IsMixed(t) ==
    /\ Len(t.columns) > 0
    /\ Len(t.dimensions) + Len(t.time_dimensions) + Len(t.measures) > 0

\* an expression with an aggregate function and no window function
IsRowReducing(expr) ==
    /\ \E i \in 1..(Len(expr) - 1) : expr[i] \in AggFuncNames /\ expr[i + 1] = "("
    /\ \A i \in 1..Len(expr) : expr[i] # "OVER"

\* a model the expander accepts: no table in both shapes, no aggregate on a
\* dimension or time dimension
IsValidModel(m) ==
    \A i \in 1..Len(m.tables) :
        LET t == m.tables[i]
        IN  /\ ~IsMixed(t)
            /\ \A j \in 1..Len(t.columns) :
                   IsRowReducing(t.columns[j].expr) => t.columns[j].kind = ColumnKind.measure
            /\ \A j \in 1..Len(t.dimensions) : ~IsRowReducing(t.dimensions[j].expr)
            /\ \A j \in 1..Len(t.time_dimensions) : ~IsRowReducing(t.time_dimensions[j].expr)

\* C1: for a model M and a query Q without WITH clause, expand(Q, M) succeeds,
\* each of the first |M.tables| strip calls on its result succeeds and removes
\* exactly one CTE, and the last of them yields a text with the statement of Q
\* and no WITH clause.
C1_RoundTrip ==
    (IsValidModel(model) /\ ~HasWith(sql_query) /\ chain = "expand") =>
        /\ pc = "expand" => (exc = NoExc /\ Len(CtesOf(ret)) = Len(model.tables))
        /\ (pc = "strip" /\ strips <= Len(model.tables)) =>
               /\ exc = NoExc
               /\ Len(CtesOf(ret)) = Len(CtesOf(arg)) - 1
               /\ strips = Len(model.tables) =>
                      (~HasWith(ret) /\ BodyOf(ret) = BodyOf(sql_query))

\* C2: when the query has a WITH clause, the CTE list of expand's result is the
\* synthesized CTEs, one per model table in model order, followed by the
\* query's own CTEs in their order; the statement is unchanged.
C2_PrependExisting ==
    (pc = "expand" /\ exc = NoExc /\ HasWith(sql_query)) =>
        LET ctes == CtesOf(ret)
            n == Len(model.tables)
            ctx == context_to_column_format(model).out.value
        IN  /\ Len(ctes) = n + Len(CtesOf(sql_query))
            /\ \A i \in 1..n :
                   /\ ctes[i].alias = "__" \o model.tables[i].name
                   /\ <<ctes[i]>> = CtesOf(_generate_cte_for(ctx.tables[i]).value
                                             \o <<"SELECT", "1">>)
            /\ SubSeq(ctes, n + 1, Len(ctes)) = CtesOf(sql_query)
            /\ BodyOf(ret) = BodyOf(sql_query)

C2_Witness ==
    /\ pc = "expand" /\ exc = NoExc
    /\ Len(model.tables) = 2
    /\ Len(CtesOf(sql_query)) = 2

\* C3: when the query has no WITH clause, expand returns a text (it does not
\* fail for a valid model, whatever its number of tables) whose CTE list is the
\* synthesized CTEs, one per model table in model order.
C3_NewWith ==
    (pc = "expand" /\ IsValidModel(model) /\ ~HasWith(sql_query)) =>
        /\ exc = NoExc
        /\ Len(CtesOf(ret)) = Len(model.tables)
        /\ \A i \in 1..Len(model.tables) :
               CtesOf(ret)[i].alias = "__" \o model.tables[i].name
        /\ BodyOf(ret) = BodyOf(sql_query)

\* C4: a strip call that returns has removed the first CTE and nothing else:
\* the whole WITH clause when it held one CTE, else the first entry, the other
\* entries, their order and the statement being unchanged.
C4_StripFrame ==
    (pc = "strip" /\ exc = NoExc) =>
        /\ Len(CtesOf(arg)) >= 1
        /\ CtesOf(ret) = Tail(CtesOf(arg))
        /\ HasWith(ret) <=> Len(CtesOf(arg)) > 1
        /\ BodyOf(ret) = BodyOf(arg)

C4_Witness ==
    /\ pc = "strip" /\ exc = NoExc
    /\ Len(CtesOf(arg)) = 3
    /\ CtesOf(ret)[2].alias = "other"

\* C5: a strip call raises a ValueError, returning no text, exactly when its
\* argument has no WITH clause or the alias of its first CTE does not start
\* with "__" or has nothing after it.
C5_StripFails ==
    pc = "strip" =>
        LET ctes == CtesOf(arg)
            bad == \/ ~HasWith(arg)
                   \/ SubSeq(ctes[1].alias, 1, 2) # "__"
                   \/ Len(ctes[1].alias) <= 2
        IN  /\ bad => (exc.type = "ValueError" /\ ret = <<>>)
            /\ ~bad => (exc = NoExc /\ Len(ret) > 0)

C5_Witness ==
    /\ pc = "strip" /\ exc.type = "ValueError"
    /\ HasWith(arg)
    /\ CtesOf(arg)[1].alias = "__"

\* C6: is_aggregation_expr returns true only for a measure whose expression
\* has an aggregate function and no window function; it raises a ValueError
\* for such an expression on a column that is no measure; it returns false for
\* every other expression, whatever the kind.
C6_Classifier ==
    pc = "classify" =>
        IF IsRowReducing(col.expr)
        THEN IF col.kind = ColumnKind.measure
             THEN exc = NoExc /\ ret = TRUE
             ELSE exc.type = "ValueError"
        ELSE exc = NoExc /\ ret = FALSE

C6_Witness ==
    /\ pc = "classify" /\ exc = NoExc
    /\ col.kind = ColumnKind.measure
    /\ col.expr = ExprRatio
    /\ ret = FALSE

CopiedFields == {"name", "synonyms", "description", "expr", "data_type", "sample_values"}

\* the Column c carries a copy of each of the fields fs of the entry e
Carries(c, e, fs) == \A f \in fs : f \in DOMAIN e /\ c[f] = e[f]

\* the columns of r are the entries of the split-shape table t: dimensions,
\* then time dimensions, then measures, each with its kind and the fields named
Canonical(t, r, dim_fields, measure_fields) ==
    LET nd == Len(t.dimensions)
        nt == Len(t.time_dimensions)
        nm == Len(t.measures)
    IN  /\ Len(r.columns) = nd + nt + nm
        /\ \A j \in 1..nd :
               /\ r.columns[j].kind = ColumnKind.dimension
               /\ Carries(r.columns[j], t.dimensions[j], dim_fields)
        /\ \A j \in 1..nt :
               /\ r.columns[nd + j].kind = ColumnKind.time_dimension
               /\ Carries(r.columns[nd + j], t.time_dimensions[j], dim_fields)
        /\ \A j \in 1..nm :
               /\ r.columns[nd + nt + j].kind = ColumnKind.measure
               /\ Carries(r.columns[nd + nt + j], t.measures[j], measure_fields)
        /\ r.dimensions = <<>> /\ r.time_dimensions = <<>> /\ r.measures = <<>>

\* C8 as stated: every Column made from a split-shape entry, a measure
\* included, carries copies of the entry's name, synonyms, description, expr,
\* data_type, unique and sample_values (a measure's default_aggregation too).
C8_CopiesUniqueOfEveryEntry ==
    (pc = "canon" /\ exc = NoExc) =>
        \A i \in 1..Len(model.tables) :
            Len(model.tables[i].columns) = 0 =>
                Canonical(model.tables[i], ret.tables[i],
                          CopiedFields \cup {"unique"},
                          CopiedFields \cup {"unique", "default_aggregation"})

\* C8, amended: for a table in split shape the result has one Column per
\* entry, dimensions, then time dimensions, then measures, each group in its
\* order, each Column with the matching kind and copies of the entry's name,
\* synonyms, description, expr, data_type and sample_values; unique is copied
\* for dimensions and time dimensions, default_aggregation for measures, and
\* the unique of a measure's Column is false; the three split-shape sequences
\* are empty afterwards.
C8_Canonicalized ==
    (pc = "canon" /\ exc = NoExc) =>
        \A i \in 1..Len(model.tables) :
            Len(model.tables[i].columns) = 0 =>
                /\ Canonical(model.tables[i], ret.tables[i],
                             CopiedFields \cup {"unique"},
                             CopiedFields \cup {"default_aggregation"})
                /\ \A j \in 1..Len(ret.tables[i].columns) :
                       ret.tables[i].columns[j].kind = ColumnKind.measure =>
                           ret.tables[i].columns[j].unique = FALSE

C8_Witness ==
    /\ pc = "canon" /\ exc = NoExc
    /\ \E i \in 1..Len(model.tables) :
           /\ Len(model.tables[i].dimensions) = 2
           /\ Len(model.tables[i].measures) = 1
    /\ \E i \in 1..Len(model.tables) :
           /\ Len(model.tables[i].dimensions) = 1
           /\ Len(model.tables[i].time_dimensions) = 1
           /\ Len(model.tables[i].measures) = 1

\* C9: when a table of the model has columns and also dimensions, time
\* dimensions or measures, canonicalize and expand raise a ValueError whose
\* message names that table, and return nothing.
C9_ErrorNamesTable ==
    (pc \in {"canon", "expand"} /\ \E i \in 1..Len(model.tables) : IsMixed(model.tables[i])) =>
        LET mixed == {i \in 1..Len(model.tables) : IsMixed(model.tables[i])}
            first == CHOOSE i \in mixed : \A j \in mixed : i <= j
        IN  /\ exc.type = "ValueError"
            /\ ret = <<>>
            /\ contains(exc.msg, model.tables[first].name)

\* C10: no call changes the caller's model, whether it returns or raises.
C10_ModelUntouched == [][model' = model]_vars

C10_Witness ==
    /\ pc = "canon" /\ exc.type = "ValueError"
    /\ Len(model.tables) = 2
    /\ Len(model.tables[1].dimensions) > 0
    /\ Len(model.tables[1].columns) = 0
    /\ IsMixed(model.tables[2])

====
